---- MODULE Spec2Model ----
(***************************************************************************)
(* State-machine model of the inventory dashboard (App component):         *)
(* the in-memory collection, its localStorage copy, the delayed startup    *)
(* load, the add / edit / delete handlers and the derived query            *)
(* (filter, sort, paginate).                                               *)
(*                                                                         *)
(* Representation:                                                         *)
(*   - a JavaScript string is a TLA+ string; Chars gives its characters,   *)
(*     which toLowerCase, includes and localeCompare work on;              *)
(*   - a timestamp (Date.now(), and the ISO string made from it) is an     *)
(*     integer number of Day units; ISO strings are fixed-width, so their  *)
(*     string order is the order of the instants;                          *)
(*   - a price is an integer number of cents;                              *)
(*   - a localStorage value is a record: absent, empty text, text that     *)
(*     JSON.parse rejects, or a JSON array of item tuples.                 *)
(***************************************************************************)
EXTENDS Integers, Sequences, FiniteSets, TLC

VARIABLES
    inventoryItems,             \* useState<InventoryItem[]>([])
    isLoading,                  \* useState(true)
    loadTimer,                  \* the setTimeout of the load effect: "pending" / "fired"
    store,                      \* localStorage value of key 'inventoryItems'
    now,                        \* Date.now()
    isModalOpen,                \* add / edit modal
    editingItem,                \* item being edited, or Undefined
    isDeleteConfirmModalOpen,   \* delete confirmation modal
    itemToDelete,               \* {id, name} or Null
    searchTerm,
    selectedCategory,
    sortConfig,
    currentPage,
    itemsPerPage

vars == <<inventoryItems, isLoading, loadTimer, store, now, isModalOpen, editingItem,
          isDeleteConfirmModalOpen, itemToDelete, searchTerm, selectedCategory,
          sortConfig, currentPage, itemsPerPage>>

repoVars == <<inventoryItems, isLoading, loadTimer, store>>
formVars == <<isModalOpen, editingItem>>
deleteVars == <<isDeleteConfirmModalOpen, itemToDelete>>
viewVars == <<searchTerm, selectedCategory, sortConfig, currentPage, itemsPerPage>>

-----------------------------------------------------------------------------
(* Bounds of the model *)

\* the clock advances at most MaxTick times
MaxTick == 1

\* at most MaxAdded items with a clock-minted id are in the collection at once
MaxAdded == 2

-----------------------------------------------------------------------------
(* Time *)

\* Date.now() when the module is evaluated and the component mounts
Now0 == 20

\* 86400000 ms
Day == 1

\* JavaScript undefined and null
Undefined == [undefined |-> TRUE]
Null == [null |-> TRUE]

-----------------------------------------------------------------------------
(* Strings *)

StrTable ==
    "" :> <<>> @@
    "Laptop Pro 15\"" :> <<"L", "a", "p", "t", "o", "p", " ", "P", "r", "o", " ", "1", "5", "\"">> @@
    "Wireless Mouse" :> <<"W", "i", "r", "e", "l", "e", "s", "s", " ", "M", "o", "u", "s", "e">> @@
    "Mechanical Keyboard" :> <<"M", "e", "c", "h", "a", "n", "i", "c", "a", "l", " ", "K", "e", "y", "b", "o", "a", "r", "d">> @@
    "Office Chair Ergonomic" :> <<"O", "f", "f", "i", "c", "e", " ", "C", "h", "a", "i", "r", " ", "E", "r", "g", "o", "n", "o", "m", "i", "c">> @@
    "27\" 4K Monitor" :> <<"2", "7", "\"", " ", "4", "K", " ", "M", "o", "n", "i", "t", "o", "r">> @@
    "USB-C Hub" :> <<"U", "S", "B", "-", "C", " ", "H", "u", "b">> @@
    "Standing Desk" :> <<"S", "t", "a", "n", "d", "i", "n", "g", " ", "D", "e", "s", "k">> @@
    "Electronics" :> <<"E", "l", "e", "c", "t", "r", "o", "n", "i", "c", "s">> @@
    "Accessories" :> <<"A", "c", "c", "e", "s", "s", "o", "r", "i", "e", "s">> @@
    "Furniture" :> <<"F", "u", "r", "n", "i", "t", "u", "r", "e">> @@
    "LP15-001" :> <<"L", "P", "1", "5", "-", "0", "0", "1">> @@
    "WM-002" :> <<"W", "M", "-", "0", "0", "2">> @@
    "MK-003" :> <<"M", "K", "-", "0", "0", "3">> @@
    "OC-004" :> <<"O", "C", "-", "0", "0", "4">> @@
    "MON27-4K" :> <<"M", "O", "N", "2", "7", "-", "4", "K">> @@
    "USBC-HUB-01" :> <<"U", "S", "B", "C", "-", "H", "U", "B", "-", "0", "1">> @@
    "STD-DSK-001" :> <<"S", "T", "D", "-", "D", "S", "K", "-", "0", "0", "1">> @@
    "Mouse Pad" :> <<"M", "o", "u", "s", "e", " ", "P", "a", "d">> @@
    "MP-010" :> <<"M", "P", "-", "0", "1", "0">> @@
    "desk lamp" :> <<"d", "e", "s", "k", " ", "l", "a", "m", "p">> @@
    "furniture" :> <<"f", "u", "r", "n", "i", "t", "u", "r", "e">> @@
    "dl-011" :> <<"d", "l", "-", "0", "1", "1">> @@
    "mouse" :> <<"m", "o", "u", "s", "e">> @@
    "FURN" :> <<"F", "U", "R", "N">> @@
    "-00" :> <<"-", "0", "0">>

Digit == <<"0", "1", "2", "3", "4", "5", "6", "7", "8", "9">>

\* decimal digits of a natural number, most significant first
RECURSIVE Digits(_)
Digits(n) == IF n < 10 THEN <<Digit[n + 1]>> ELSE Append(Digits(n \div 10), Digit[(n % 10) + 1])

\* Number.prototype.toString
NumToStr(n) == ToString(n)

\* the characters of a string: a literal of the table, or a decimal numeral
Chars(s) ==
    IF s \in DOMAIN StrTable THEN StrTable[s]
    ELSE Digits(CHOOSE n \in 0..(Now0 + 99) : ToString(n) = s)

Upper == <<"A","B","C","D","E","F","G","H","I","J","K","L","M",
           "N","O","P","Q","R","S","T","U","V","W","X","Y","Z">>
Lower == <<"a","b","c","d","e","f","g","h","i","j","k","l","m",
           "n","o","p","q","r","s","t","u","v","w","x","y","z">>

IsUpper(c) == \E k \in DOMAIN Upper : Upper[k] = c

\* the characters in use
Alphabet ==
    {Upper[k] : k \in DOMAIN Upper} \cup {Lower[k] : k \in DOMAIN Lower}
        \cup {Digit[k] : k \in DOMAIN Digit} \cup {" ", "-", "\""}

\* toLowerCase of one character
LowerTable ==
    [c \in Alphabet |->
        IF IsUpper(c) THEN Lower[CHOOSE k \in DOMAIN Upper : Upper[k] = c] ELSE c]

LowerChar(c) == LowerTable[c]

\* String.prototype.toLowerCase, on characters
ToLowerCase(cs) == [k \in DOMAIN cs |-> LowerChar(cs[k])]

\* String.prototype.includes, on characters: a scan over the start positions
Includes(cs, ts) ==
    \E start \in 0..(Len(cs) - Len(ts)) : SubSeq(cs, start + 1, start + Len(ts)) = ts

-----------------------------------------------------------------------------
(* Items *)

Item(id, name, quantity, price, category, sku, lastUpdated) ==
    [id |-> id, name |-> name, quantity |-> quantity, price |-> price,
     category |-> category, sku |-> sku, lastUpdated |-> lastUpdated]

\* the sample data: lastUpdated is relative to Date.now() at module evaluation
initialItems == <<
    Item("1", "Laptop Pro 15\"", 5, 120000, "Electronics", "LP15-001", Now0 - Day * 2),
    Item("2", "Wireless Mouse", 150, 2599, "Accessories", "WM-002", Now0 - Day),
    Item("3", "Mechanical Keyboard", 8, 7950, "Accessories", "MK-003", Now0),
    Item("4", "Office Chair Ergonomic", 30, 25000, "Furniture", "OC-004", Now0 - Day * 5),
    Item("5", "27\" 4K Monitor", 15, 35000, "Electronics", "MON27-4K", Now0 - Day * 1),
    Item("6", "USB-C Hub", 60, 3500, "Accessories", "USBC-HUB-01", Now0 - Day * 3),
    Item("7", "Standing Desk", 12, 45000, "Furniture", "STD-DSK-001", Now0 - Day * 10) >>

LOW_STOCK_THRESHOLD == 10

\* form payloads (NewInventoryItem): no id, no lastUpdated
NewItemInputs == {
    [name |-> "Mouse Pad", quantity |-> 10, price |-> 999,
     category |-> "Accessories", sku |-> "MP-010"],
    [name |-> "desk lamp", quantity |-> 5, price |-> 2599,
     category |-> "furniture", sku |-> "dl-011"] }

\* ids the edit form and the delete button are used on: a sample item (also in the
\* earlier session's collection) and the id an add mints at the first clock value
TargetIds == {"1", NumToStr(Now0)}

\* form payloads of an edit (InventoryItem): the id and a stale lastUpdated included
ItemInputs == {
    [id |-> i, name |-> "desk lamp", quantity |-> 5, price |-> 2599,
     category |-> "furniture", sku |-> "dl-011", lastUpdated |-> Now0 - Day * 2] :
        i \in TargetIds }

\* arguments of handleDeleteRequest
DeleteInputs == { [id |-> i, name |-> "Mouse Pad"] : i \in TargetIds }

Ids(items) == { items[k].id : k \in DOMAIN items }

-----------------------------------------------------------------------------
(* Persistent store: localStorage key 'inventoryItems' *)

\* JSON.stringify of one item: its fields, in text form
ItemToJson(item) ==
    <<item.id, item.name, item.quantity, item.price, item.category, item.sku,
      item.lastUpdated>>

\* JSON.parse of one item
JsonToItem(t) == Item(t[1], t[2], t[3], t[4], t[5], t[6], t[7])

\* JSON.stringify(inventoryItems)
JsonStringify(items) ==
    [kind |-> "array", body |-> [k \in DOMAIN items |-> ItemToJson(items[k])]]

\* JSON.parse of a stored array
JsonParse(value) == [k \in DOMAIN value.body |-> JsonToItem(value.body[k])]

StoreAbsent == [kind |-> "absent", body |-> <<>>]      \* getItem returns null
StoreEmpty == [kind |-> "empty", body |-> <<>>]        \* the empty string
StoreCorrupt == [kind |-> "corrupt", body |-> <<>>]    \* text JSON.parse throws on

\* a collection an earlier session left in the store
storedItems == <<
    Item(NumToStr(Now0 - Day), "desk lamp", 5, 2599, "furniture", "dl-011", Now0 - Day),
    Item("1", "Laptop Pro 15\"", 4, 120000, "Electronics", "LP15-001", Now0 - Day),
    Item("2", "Wireless Mouse", 150, 2599, "Accessories", "WM-002", Now0 - Day * 3) >>

\* what the store may hold when the session starts
InitialStores ==
    {StoreAbsent, StoreEmpty, StoreCorrupt, JsonStringify(<<>>), JsonStringify(storedItems)}

\* the timer callback without its catch branch: a parse error leaves the collection empty
LoadedItemsNoCatch(value) ==
    IF value.kind = "absent" \/ value.kind = "empty"
    THEN initialItems
    ELSE IF value.kind = "corrupt" THEN <<>> ELSE JsonParse(value)

\* the timer callback of the load effect: the collection it sets
LoadedItems(value) ==
    IF value.kind = "absent" \/ value.kind = "empty"
    THEN initialItems                        \* if (storedItems) is false
    ELSE IF value.kind = "corrupt"
         THEN initialItems                   \* catch
         ELSE JsonParse(value)

\* the save effect without its isLoading test
SaveEffectUnguarded(items, loading, value) == JsonStringify(items)

\* the save effect, run after a render in which inventoryItems or isLoading changed
SaveEffect(items, loading, value) ==
    IF ~loading THEN JsonStringify(items) ELSE value

-----------------------------------------------------------------------------
(* Collection updates of the handlers *)

\* { ...itemData, id: Date.now().toString(), lastUpdated: new Date().toISOString() }
NewItem(itemData, t) ==
    Item(NumToStr(t), itemData.name, itemData.quantity, itemData.price,
         itemData.category, itemData.sku, t)

\* the new item put last instead of first
AddItemLast(items, itemData, t) == Append(items, NewItem(itemData, t))

\* prevItems => [newItem, ...prevItems]
AddItem(items, itemData, t) == <<NewItem(itemData, t)>> \o items

\* the update without the refresh of lastUpdated
UpdateItemStale(items, itemData, t) ==
    [k \in DOMAIN items |-> IF items[k].id = itemData.id THEN itemData ELSE items[k]]

\* the update as an upsert: an unknown id is added
UpdateItemUpsert(items, itemData, t) ==
    IF \E k \in DOMAIN items : items[k].id = itemData.id
    THEN [k \in DOMAIN items |->
             IF items[k].id = itemData.id
             THEN [itemData EXCEPT !.lastUpdated = t]
             ELSE items[k]]
    ELSE <<[itemData EXCEPT !.lastUpdated = t]>> \o items

\* prevItems.map(item => item.id === itemData.id ? {...itemData, lastUpdated: now} : item)
UpdateItem(items, itemData, t) ==
    [k \in DOMAIN items |->
        IF items[k].id = itemData.id
        THEN [itemData EXCEPT !.lastUpdated = t]
        ELSE items[k]]

\* the removal of the first item with the id only (findIndex and splice)
RemoveFirstItem(items, id) ==
    IF \E k \in DOMAIN items : items[k].id = id
    THEN LET first == CHOOSE k \in DOMAIN items :
                          /\ items[k].id = id
                          /\ \A j \in 1..(k - 1) : items[j].id # id
         IN  SubSeq(items, 1, first - 1) \o SubSeq(items, first + 1, Len(items))
    ELSE items

\* prevItems.filter(item => item.id !== itemToDelete.id)
RemoveItem(items, id) == SelectSeq(items, LAMBDA item : item.id # id)

\* number of items in the collection whose id was minted from the model's clock
AddedCount(items) ==
    Cardinality({k \in DOMAIN items :
                    \E t \in Now0..(Now0 + MaxTick) : items[k].id = NumToStr(t)})

-----------------------------------------------------------------------------
(* Query: filter, sort, paginate *)

Keys == {"id", "name", "quantity", "price", "category", "sku", "lastUpdated"}

\* sortConfig.key === null
NullKey == "null"

\* typeof value === 'number'
IsNumber(key) == key \in {"quantity", "price"}

\* collation order of the characters in use: whitespace, punctuation, digits, letters
CollationOrder == <<" ", "-", "\"">> \o Digit \o Lower

\* primary collation weight: case is ignored
PrimaryTable ==
    [c \in Alphabet |->
        CHOOSE k \in DOMAIN CollationOrder : CollationOrder[k] = LowerChar(c)]

Primary(c) == PrimaryTable[c]

\* first position at which the strings differ on the primary level, 0 when none
RECURSIVE PrimaryCompare(_, _, _)
PrimaryCompare(xs, ys, k) ==
    IF k > Len(xs) /\ k > Len(ys) THEN 0
    ELSE IF k > Len(xs) THEN -1
    ELSE IF k > Len(ys) THEN 1
    ELSE IF Primary(xs[k]) < Primary(ys[k]) THEN -1
    ELSE IF Primary(xs[k]) > Primary(ys[k]) THEN 1
    ELSE PrimaryCompare(xs, ys, k + 1)

\* case decides between strings equal on the primary level: lower case first
RECURSIVE CaseCompare(_, _, _)
CaseCompare(xs, ys, k) ==
    IF k > Len(xs) THEN 0
    ELSE IF xs[k] = ys[k] THEN CaseCompare(xs, ys, k + 1)
    ELSE IF IsUpper(ys[k]) THEN -1 ELSE 1

\* String.prototype.localeCompare, on characters
LocaleCompare(xs, ys) ==
    LET p == PrimaryCompare(xs, ys, 1)
    IN  IF p # 0 THEN p ELSE CaseCompare(xs, ys, 1)

\* localeCompare of two ISO timestamps: fixed-width digits, so the order of the instants
IsoCompare(t, u) == IF t < u THEN -1 ELSE IF t > u THEN 1 ELSE 0

\* the comparator's `comparison` for two rows at a key
Comparison(a, b, key) ==
    IF IsNumber(key) THEN a[key] - b[key]
    ELSE IF key = "lastUpdated" THEN IsoCompare(a[key], b[key])
    ELSE LocaleCompare(Chars(a[key]), Chars(b[key]))

\* the comparator passed to items.sort
SortComparator(a, b, config) ==
    IF config.direction = "ascending"
    THEN Comparison(a, b, config.key)
    ELSE 0 - Comparison(a, b, config.key)

\* insertion of x behind every element that does not compare greater than it
RECURSIVE InsertSorted(_, _, _)
InsertSorted(sorted, x, config) ==
    IF sorted = <<>> THEN <<x>>
    ELSE IF SortComparator(sorted[Len(sorted)], x, config) <= 0
         THEN Append(sorted, x)
         ELSE Append(InsertSorted(SubSeq(sorted, 1, Len(sorted) - 1), x, config),
                     sorted[Len(sorted)])

\* Array.prototype.sort with the comparator: a stable sort
RECURSIVE ArraySort(_, _)
ArraySort(items, config) ==
    IF items = <<>> THEN <<>>
    ELSE InsertSorted(ArraySort(SubSeq(items, 1, Len(items) - 1), config),
                      items[Len(items)], config)

\* the search predicate without toLowerCase on the item's fields
MatchesSearchCaseSensitive(item, term) ==
    LET t == ToLowerCase(Chars(term))
    IN  \/ Includes(Chars(item.name), t)
        \/ Includes(Chars(item.sku), t)
        \/ Includes(Chars(item.category), t)

\* the predicate of the search filter
MatchesSearch(item, term) ==
    LET t == ToLowerCase(Chars(term))
    IN  \/ Includes(ToLowerCase(Chars(item.name)), t)
        \/ Includes(ToLowerCase(Chars(item.sku)), t)
        \/ Includes(ToLowerCase(Chars(item.category)), t)

\* if (searchTerm) items = items.filter(...)
FilterBySearch(items, term) ==
    IF term # "" THEN SelectSeq(items, LAMBDA item : MatchesSearch(item, term)) ELSE items

\* if (selectedCategory) items = items.filter(item => item.category === selectedCategory)
FilterByCategory(items, category) ==
    IF category # "" THEN SelectSeq(items, LAMBDA item : item.category = category) ELSE items

Reverse(items) == [k \in DOMAIN items |-> items[Len(items) + 1 - k]]

\* descending order obtained by sorting ascending and reversing
SortItemsReversed(items, config) ==
    IF config.key # NullKey
    THEN IF config.direction = "ascending"
         THEN ArraySort(items, config)
         ELSE Reverse(ArraySort(items, [config EXCEPT !.direction = "ascending"]))
    ELSE items

\* if (sortConfig.key) items.sort(...)
SortItems(items, config) ==
    IF config.key # NullKey THEN ArraySort(items, config) ELSE items

\* the useMemo filteredAndSortedItems
FilteredAndSorted(items, term, category, config) ==
    SortItems(FilterByCategory(FilterBySearch(items, term), category), config)

filteredAndSortedItems ==
    FilteredAndSorted(inventoryItems, searchTerm, selectedCategory, sortConfig)

\* Array.prototype.slice(start, end) for 0 <= start <= end
Slice(items, start, end) ==
    LET hi == IF end < Len(items) THEN end ELSE Len(items)
    IN  IF start + 1 > hi THEN <<>> ELSE SubSeq(items, start + 1, hi)

\* the page taken as a 0-indexed one
PaginatedFromZero(items, page, pageSize) ==
    LET startIndex == page * pageSize
    IN  Slice(items, startIndex, startIndex + pageSize)

\* the useMemo paginatedItems
Paginated(items, page, pageSize) ==
    LET startIndex == (page - 1) * pageSize
    IN  Slice(items, startIndex, startIndex + pageSize)

paginatedItems == Paginated(filteredAndSortedItems, currentPage, itemsPerPage)

\* Math.ceil(filteredAndSortedItems.length / itemsPerPage), the totalPages of Pagination
TotalPages(items, pageSize) == (Len(items) + pageSize - 1) \div pageSize

\* the Pagination control is rendered
PaginationShown == Len(filteredAndSortedItems) > 0 /\ ~isLoading

-----------------------------------------------------------------------------
(* Dashboard statistics *)

\* inventoryItems.reduce((sum, item) => sum + item.quantity, 0)
RECURSIVE TotalItemsInStock(_)
TotalItemsInStock(items) ==
    IF items = <<>> THEN 0
    ELSE TotalItemsInStock(SubSeq(items, 1, Len(items) - 1)) + items[Len(items)].quantity

\* inventoryItems.length
UniqueProductSKUs(items) == Len(items)

\* inventoryItems.reduce((sum, item) => sum + item.quantity * item.price, 0), in cents
RECURSIVE TotalInventoryValue(_)
TotalInventoryValue(items) ==
    IF items = <<>> THEN 0
    ELSE TotalInventoryValue(SubSeq(items, 1, Len(items) - 1))
            + items[Len(items)].quantity * items[Len(items)].price

\* the low-stock count with a strict comparison
LowStockItemsCountStrict(items) ==
    Len(SelectSeq(items, LAMBDA item : item.quantity < LOW_STOCK_THRESHOLD))

\* inventoryItems.filter(item => item.quantity <= LOW_STOCK_THRESHOLD).length
LowStockItemsCount(items) ==
    Len(SelectSeq(items, LAMBDA item : item.quantity <= LOW_STOCK_THRESHOLD))

\* the four cards of the dashboard
DashboardStats(items) ==
    [totalItemsInStock |-> TotalItemsInStock(items),
     uniqueProductSKUs |-> UniqueProductSKUs(items),
     totalInventoryValue |-> TotalInventoryValue(items),
     lowStockItemsCount |-> LowStockItemsCount(items)]

\* the statistics as rendered: over inventoryItems
dashboardStats == DashboardStats(inventoryItems)

-----------------------------------------------------------------------------
(* The session: startup load, clock, add / edit / delete handlers *)

\* the state after the first render and its effects: the load timer is armed
Init ==
    /\ inventoryItems = <<>>
    /\ isLoading = TRUE
    /\ loadTimer = "pending"
    /\ store \in InitialStores
    /\ now = Now0
    /\ isModalOpen = FALSE
    /\ editingItem = Undefined
    /\ isDeleteConfirmModalOpen = FALSE
    /\ itemToDelete = Null
    /\ searchTerm = ""
    /\ selectedCategory = ""
    /\ sortConfig = [key |-> "lastUpdated", direction |-> "descending"]
    /\ currentPage = 1
    /\ itemsPerPage = 10

\* time passes
Tick ==
    /\ now < Now0 + MaxTick
    /\ now' = now + 1
    /\ UNCHANGED <<repoVars, formVars, deleteVars, viewVars>>

\* the setTimeout callback of the load effect, then the save effect
LoadComplete ==
    /\ loadTimer = "pending"
    /\ loadTimer' = "fired"
    /\ inventoryItems' = LoadedItems(store)
    /\ isLoading' = FALSE
    /\ store' = SaveEffect(inventoryItems', isLoading', store)
    /\ UNCHANGED <<now, formVars, deleteVars, viewVars>>

\* handleItemFormSubmit, then the save effect
HandleItemFormSubmit(itemData) ==
    /\ inventoryItems' =
          IF "id" \in DOMAIN itemData
          THEN UpdateItem(inventoryItems, itemData, now)
          ELSE AddItem(inventoryItems, itemData, now)
    /\ isModalOpen' = FALSE
    /\ editingItem' = Undefined
    /\ store' = SaveEffect(inventoryItems', isLoading, store)
    /\ UNCHANGED <<isLoading, loadTimer, now, deleteVars, viewVars>>

HandleDeleteRequest(itemId, itemName) ==
    /\ itemToDelete' = [id |-> itemId, name |-> itemName]
    /\ isDeleteConfirmModalOpen' = TRUE
    /\ UNCHANGED <<repoVars, now, formVars, viewVars>>

\* confirmDeleteItem, then the save effect when the collection was set
ConfirmDeleteItem ==
    /\ IF itemToDelete # Null
       THEN /\ inventoryItems' = RemoveItem(inventoryItems, itemToDelete.id)
            /\ store' = SaveEffect(inventoryItems', isLoading, store)
       ELSE UNCHANGED <<inventoryItems, store>>
    /\ isDeleteConfirmModalOpen' = FALSE
    /\ itemToDelete' = Null
    /\ UNCHANGED <<isLoading, loadTimer, now, formVars, viewVars>>

\* Cancel button and onClose of the confirmation modal
CloseDeleteModal ==
    /\ isDeleteConfirmModalOpen' = FALSE
    /\ UNCHANGED <<repoVars, now, formVars, itemToDelete, viewVars>>

OpenAddModal ==
    /\ editingItem' = Undefined
    /\ isModalOpen' = TRUE
    /\ UNCHANGED <<repoVars, now, deleteVars, viewVars>>

OpenEditModal(item) ==
    /\ editingItem' = item
    /\ isModalOpen' = TRUE
    /\ UNCHANGED <<repoVars, now, deleteVars, viewVars>>

CloseModal ==
    /\ isModalOpen' = FALSE
    /\ editingItem' = Undefined
    /\ UNCHANGED <<repoVars, now, deleteVars, viewVars>>

\* the form submitted with a new item
SubmitNew ==
    /\ AddedCount(inventoryItems) < MaxAdded
    /\ \E itemData \in NewItemInputs : HandleItemFormSubmit(itemData)

\* the form submitted with an edited item
SubmitEdit == \E itemData \in ItemInputs : HandleItemFormSubmit(itemData)

DeleteRequest == \E d \in DeleteInputs : HandleDeleteRequest(d.id, d.name)

\* the edit button of a row
EditRequest ==
    \E k \in DOMAIN inventoryItems :
        /\ inventoryItems[k].id \in TargetIds
        /\ OpenEditModal(inventoryItems[k])

Next ==
    \/ Tick
    \/ LoadComplete
    \/ OpenAddModal
    \/ EditRequest
    \/ CloseModal
    \/ SubmitNew
    \/ SubmitEdit
    \/ DeleteRequest
    \/ ConfirmDeleteItem
    \/ CloseDeleteModal

Spec == Init /\ [][Next]_vars

\* the timer of the load effect fires once armed
SpecFair == Spec /\ WF_vars(LoadComplete)

-----------------------------------------------------------------------------
(* The view handlers, over a loaded collection *)

\* setCurrentPage is called with a page up to MaxPage
MaxPage == 3

SearchInputs == {"", "mouse", "FURN", "-00"}

CategoryInputs == {"", "Furniture", "Accessories", "furniture"}

\* type ItemsPerPage
PageSizes == {10, 25, 50}

\* a collection of 21 items an earlier session left: fourteen added items, then the
\* sample items
longItems ==
    [k \in 1..14 |->
        IF k % 2 = 1
        THEN Item(NumToStr(22 - k), "Mouse Pad", 3 * k, 999, "Accessories", "MP-010",
                  Now0 - Day * (1 + k \div 5))
        ELSE Item(NumToStr(22 - k), "desk lamp", 3 * k, 2599, "furniture", "dl-011",
                  Now0 - Day * (1 + k \div 5))]
    \o [k \in DOMAIN initialItems |->
            [initialItems[k] EXCEPT !.lastUpdated = @ - Day * 4]]

\* collections the session holds once loaded
LoadedCollections == {
    initialItems,
    storedItems,
    longItems,
    AddItem(AddItem(initialItems,
                    [name |-> "desk lamp", quantity |-> 5, price |-> 2599,
                     category |-> "furniture", sku |-> "dl-011"], Now0),
            [name |-> "Mouse Pad", quantity |-> 10, price |-> 999,
             category |-> "Accessories", sku |-> "MP-010"], Now0) }

\* a session after the load completed, nothing open
ViewInit ==
    /\ inventoryItems \in LoadedCollections
    /\ isLoading = FALSE
    /\ loadTimer = "fired"
    /\ store = JsonStringify(inventoryItems)
    /\ now = Now0
    /\ isModalOpen = FALSE
    /\ editingItem = Undefined
    /\ isDeleteConfirmModalOpen = FALSE
    /\ itemToDelete = Null
    /\ searchTerm = ""
    /\ selectedCategory = ""
    /\ sortConfig = [key |-> "lastUpdated", direction |-> "descending"]
    /\ currentPage = 1
    /\ itemsPerPage = 10

\* SearchBar onSearchChange
SetSearchTerm(term) ==
    /\ searchTerm' = term
    /\ UNCHANGED <<repoVars, now, formVars, deleteVars, selectedCategory, sortConfig,
                   currentPage, itemsPerPage>>

HandleCategoryChange(category) ==
    /\ selectedCategory' = category
    /\ currentPage' = 1
    /\ UNCHANGED <<repoVars, now, formVars, deleteVars, searchTerm, sortConfig,
                   itemsPerPage>>

\* the sort request with the sort done on the state array itself
RequestSortInPlace(key) ==
    /\ sortConfig' =
          [key |-> key,
           direction |-> IF sortConfig.key = key /\ sortConfig.direction = "ascending"
                         THEN "descending" ELSE "ascending"]
    /\ inventoryItems' = SortItems(inventoryItems, sortConfig')
    /\ currentPage' = 1
    /\ UNCHANGED <<isLoading, loadTimer, store, now, formVars, deleteVars, searchTerm,
                   selectedCategory, itemsPerPage>>

\* the sort request that always selects ascending
RequestSortAscending(key) ==
    /\ sortConfig' = [key |-> key, direction |-> "ascending"]
    /\ currentPage' = 1
    /\ UNCHANGED <<repoVars, now, formVars, deleteVars, searchTerm, selectedCategory,
                   itemsPerPage>>

RequestSort(key) ==
    /\ sortConfig' =
          [key |-> key,
           direction |-> IF sortConfig.key = key /\ sortConfig.direction = "ascending"
                         THEN "descending" ELSE "ascending"]
    /\ currentPage' = 1
    /\ UNCHANGED <<repoVars, now, formVars, deleteVars, searchTerm, selectedCategory,
                   itemsPerPage>>

\* Pagination onPageChange
SetCurrentPage(page) ==
    /\ currentPage' = page
    /\ UNCHANGED <<repoVars, now, formVars, deleteVars, searchTerm, selectedCategory,
                   sortConfig, itemsPerPage>>

\* the page size changed without the reset of the page
OnItemsPerPageChangeKeepsPage(newSize) ==
    /\ itemsPerPage' = newSize
    /\ UNCHANGED <<repoVars, now, formVars, deleteVars, searchTerm, selectedCategory,
                   sortConfig, currentPage>>

\* Pagination onItemsPerPageChange
OnItemsPerPageChange(newSize) ==
    /\ itemsPerPage' = newSize
    /\ currentPage' = 1
    /\ UNCHANGED <<repoVars, now, formVars, deleteVars, searchTerm, selectedCategory,
                   sortConfig>>

SearchChange == \E term \in SearchInputs : SetSearchTerm(term)

CategoryChange == \E category \in CategoryInputs : HandleCategoryChange(category)

SortRequest == \E key \in Keys : RequestSort(key)

\* a page of the Pagination control, which is given totalPages
PageChange ==
    /\ PaginationShown
    /\ \E page \in 1..MaxPage :
          /\ page <= TotalPages(filteredAndSortedItems, itemsPerPage)
          /\ SetCurrentPage(page)

\* the page size selector of the Pagination control
PageSizeChange ==
    /\ PaginationShown
    /\ \E newSize \in PageSizes : OnItemsPerPageChange(newSize)

ViewNext ==
    \/ SearchChange
    \/ CategoryChange
    \/ SortRequest
    \/ PageChange
    \/ PageSizeChange

SpecView == ViewInit /\ [][ViewNext]_vars

-----------------------------------------------------------------------------
(* Steps, as the properties below refer to them *)

\* the load's timer callback ran in this step
LoadStep == loadTimer = "pending" /\ loadTimer' = "fired"

\* an add ran in this step
AddStep == \E p \in NewItemInputs : HandleItemFormSubmit(p)

\* an update ran in this step
UpdateStep == \E d \in ItemInputs : HandleItemFormSubmit(d)

\* a remove ran in this step
RemoveStep == ConfirmDeleteItem /\ itemToDelete # Null

\* the store holds exactly the in-memory collection
StoreHolds(value, items) ==
    /\ value.kind = "array"
    /\ Len(value.body) = Len(items)
    /\ \A k \in DOMAIN items :
          value.body[k] = <<items[k].id, items[k].name, items[k].quantity, items[k].price,
                            items[k].category, items[k].sku, items[k].lastUpdated>>

PairwiseDistinctIds(items) ==
    \A j, k \in DOMAIN items : j # k => items[j].id # items[k].id

-----------------------------------------------------------------------------
(* C1 *)

\* C1: once the collection is loaded, the ids in it are pairwise distinct after any
\* sequence of add, update and remove, also when two adds happen at one clock value.
C1_IdsStayDistinct == loadTimer = "fired" => PairwiseDistinctIds(inventoryItems)

-----------------------------------------------------------------------------
(* C2 *)

\* C2: every add, update and remove, whenever it is issued, is followed by a write of
\* the full collection: after the step the stored value equals the collection.
C2_EveryMutationIsSaved ==
    [][(AddStep \/ UpdateStep \/ RemoveStep) => StoreHolds(store', inventoryItems')]_vars

-----------------------------------------------------------------------------
(* C3 *)

\* C3, as claimed: the completion of the startup load leaves the stored value as it was.
C3_LoadDoesNotWrite == [][LoadStep => store' = store]_vars

\* C3, amended: nothing is written while the load is pending; the completion of the
\* load writes the collection it loaded; every other change of the stored value
\* comes with an add, update or remove.
C3_WritesAfterLoadAndMutations ==
    [][/\ isLoading' => store' = store
       /\ LoadStep => StoreHolds(store', inventoryItems')
       /\ store' # store => LoadStep \/ AddStep \/ UpdateStep \/ RemoveStep]_vars

\* the load completed on a store without a usable value and the seed was written
C3_Witness ==
    /\ loadTimer = "fired"
    /\ inventoryItems = initialItems
    /\ StoreHolds(store, initialItems)

-----------------------------------------------------------------------------
(* C4 *)

-----------------------------------------------------------------------------
(* C5 *)

\* C5: add puts the new item first, with the payload's name, quantity, price,
\* category and sku; the items present before follow it, unmodified and in order.
C5_AddPrepends ==
    [][\A p \in NewItemInputs :
          HandleItemFormSubmit(p) =>
              /\ Len(inventoryItems') = Len(inventoryItems) + 1
              /\ inventoryItems'[1].name = p.name
              /\ inventoryItems'[1].quantity = p.quantity
              /\ inventoryItems'[1].price = p.price
              /\ inventoryItems'[1].category = p.category
              /\ inventoryItems'[1].sku = p.sku
              /\ \A k \in DOMAIN inventoryItems :
                    inventoryItems'[k + 1] = inventoryItems[k]]_vars

\* an item was added to the loaded seed collection
C5_Witness ==
    /\ loadTimer = "fired"
    /\ Len(inventoryItems) = 8
    /\ inventoryItems[1].name = "Mouse Pad"
    /\ SubSeq(inventoryItems, 2, 8) = initialItems

-----------------------------------------------------------------------------
(* C6 *)

\* C6: update with an id that is in the collection replaces that item in place: it
\* holds the input's fields with lastUpdated set to the current time, at the same
\* position; every other item, the length and the order are unchanged.
C6_UpdateInPlace ==
    [][\A d \in ItemInputs :
          (HandleItemFormSubmit(d) /\ d.id \in Ids(inventoryItems)) =>
              /\ Len(inventoryItems') = Len(inventoryItems)
              /\ \A k \in DOMAIN inventoryItems :
                    IF inventoryItems[k].id = d.id
                    THEN /\ inventoryItems'[k].id = d.id
                         /\ inventoryItems'[k].name = d.name
                         /\ inventoryItems'[k].quantity = d.quantity
                         /\ inventoryItems'[k].price = d.price
                         /\ inventoryItems'[k].category = d.category
                         /\ inventoryItems'[k].sku = d.sku
                         /\ inventoryItems'[k].lastUpdated = now
                    ELSE inventoryItems'[k] = inventoryItems[k]]_vars

\* sample item '1' was edited after the clock advanced; the rest of the seed is as loaded
C6_Witness ==
    /\ loadTimer = "fired"
    /\ Len(inventoryItems) = 7
    /\ inventoryItems[1].id = "1"
    /\ inventoryItems[1].name = "desk lamp"
    /\ inventoryItems[1].lastUpdated = Now0 + 1
    /\ SubSeq(inventoryItems, 2, 7) = SubSeq(initialItems, 2, 7)

-----------------------------------------------------------------------------
(* C7 *)

\* positions of the items with another id
Others(items, id) == {k \in DOMAIN items : items[k].id # id}

\* position of the n-th item with another id
NthOther(items, id, n) ==
    CHOOSE k \in Others(items, id) :
        Cardinality({j \in Others(items, id) : j <= k}) = n

\* queries the removed id is looked for in: the unfiltered one of the initial view,
\* a search by name and a category filter
C7_Queries ==
    { [term |-> "", category |-> "",
       config |-> [key |-> "lastUpdated", direction |-> "descending"]],
      [term |-> "mouse", category |-> "",
       config |-> [key |-> "name", direction |-> "ascending"]],
      [term |-> "", category |-> "Accessories",
       config |-> [key |-> "quantity", direction |-> "descending"]] }

\* C7: after remove(id) no item with that id is in the collection and no query
\* returns one, and the items with other ids remain, unmodified and in order.
C7_RemoveDeletes ==
    [][RemoveStep =>
          LET id == itemToDelete.id
          IN  /\ id \notin Ids(inventoryItems')
              /\ Len(inventoryItems') = Cardinality(Others(inventoryItems, id))
              /\ \A n \in DOMAIN inventoryItems' :
                    inventoryItems'[n] = inventoryItems[NthOther(inventoryItems, id, n)]
              /\ \A q \in C7_Queries :
                    id \notin Ids(FilteredAndSorted(inventoryItems', q.term, q.category,
                                                    q.config))]_vars

\* sample item '1' was removed from the loaded seed collection
C7_Witness ==
    /\ loadTimer = "fired"
    /\ itemToDelete = Null
    /\ inventoryItems = SubSeq(initialItems, 2, 7)

-----------------------------------------------------------------------------
(* C8 *)

\* C8: update and remove on an id that is not in the collection leave the collection
\* as it is; so does a second removal of an id.
C8_MissingIdIsNoOp ==
    [][/\ \A d \in ItemInputs :
             (HandleItemFormSubmit(d) /\ d.id \notin Ids(inventoryItems)) =>
                 inventoryItems' = inventoryItems
       /\ (ConfirmDeleteItem /\ (itemToDelete = Null
                                   \/ itemToDelete.id \notin Ids(inventoryItems))) =>
             inventoryItems' = inventoryItems]_vars

\* sample item '1' was removed and its removal is requested a second time
C8_Witness ==
    /\ loadTimer = "fired"
    /\ inventoryItems = SubSeq(initialItems, 2, 7)
    /\ isDeleteConfirmModalOpen
    /\ itemToDelete # Null
    /\ itemToDelete.id = "1"

-----------------------------------------------------------------------------
(* C9 *)

\* cs contains ts when case is ignored, character by character
ContainsIgnoringCase(cs, ts) ==
    \E off \in 0..(Len(cs) - Len(ts)) :
        \A j \in 1..Len(ts) : LowerChar(cs[off + j]) = LowerChar(ts[j])

\* the item passes the search term and the category filter
Selected(item, term, category) ==
    /\ \/ term = ""
       \/ ContainsIgnoringCase(Chars(item.name), Chars(term))
       \/ ContainsIgnoringCase(Chars(item.sku), Chars(term))
       \/ ContainsIgnoringCase(Chars(item.category), Chars(term))
    /\ \/ category = ""
       \/ item.category = category

Occurrences(items, x) == Cardinality({k \in DOMAIN items : items[k] = x})

\* C9: the query result holds exactly the items of the collection that pass the
\* search term (empty, or contained in name, sku or category, case ignored) and the
\* category filter (empty, or equal to the item's category); the two filters give
\* the same result in either order.
C9_QuerySelects ==
    LET selected == {k \in DOMAIN inventoryItems :
                        Selected(inventoryItems[k], searchTerm, selectedCategory)}
    IN  /\ Len(filteredAndSortedItems) = Cardinality(selected)
        /\ \A k \in DOMAIN inventoryItems :
              Occurrences(filteredAndSortedItems, inventoryItems[k]) =
                  Cardinality({j \in selected : inventoryItems[j] = inventoryItems[k]})
        /\ FilterBySearch(FilterByCategory(inventoryItems, selectedCategory), searchTerm) =
              FilterByCategory(FilterBySearch(inventoryItems, searchTerm), selectedCategory)

\* a term in upper case matches three items by category, the category filter keeps two
C9_Witness ==
    /\ searchTerm = "FURN"
    /\ selectedCategory = "Furniture"
    /\ Len(FilterBySearch(inventoryItems, searchTerm)) = 3
    /\ Len(filteredAndSortedItems) = 2

-----------------------------------------------------------------------------
(* C10 *)

\* each item with its position in the collection
Tagged(items) == [k \in DOMAIN items |-> items[k] @@ [pos |-> k]]

Untagged(rows) == [k \in DOMAIN rows |-> [f \in Keys |-> rows[k][f]]]

\* a's value at the key is not after b's
KeyLeq(a, b, key) ==
    IF IsNumber(key) \/ key = "lastUpdated"
    THEN a[key] <= b[key]
    ELSE LocaleCompare(Chars(a[key]), Chars(b[key])) <= 0

\* C10: with a sort key set, the query result is ordered by that key, non-decreasing
\* when ascending and non-increasing when descending, and two items with equal values
\* at the key are in the order they have in the collection.
C10_SortOrderedAndStable ==
    sortConfig.key # NullKey =>
        LET rows == FilteredAndSorted(Tagged(inventoryItems), searchTerm, selectedCategory,
                                      sortConfig)
            key == sortConfig.key
        IN  /\ Untagged(rows) = filteredAndSortedItems
            /\ \A i, j \in DOMAIN rows :
                  i < j =>
                      /\ IF sortConfig.direction = "ascending"
                         THEN KeyLeq(rows[i], rows[j], key)
                         ELSE KeyLeq(rows[j], rows[i], key)
                      /\ rows[i][key] = rows[j][key] => rows[i].pos < rows[j].pos

\* the seed collection sorted by category, descending: each category has several items
C10_Witness ==
    /\ sortConfig = [key |-> "category", direction |-> "descending"]
    /\ searchTerm = ""
    /\ selectedCategory = ""
    /\ inventoryItems = initialItems

-----------------------------------------------------------------------------
(* C11 *)

\* 0-based indices of the query result that lie on the page
OnPage(n, page, pageSize) ==
    {i \in 0..(n - 1) : (page - 1) * pageSize <= i /\ i < page * pageSize}

\* C11: the visible page is the part of the query result at the 0-based indices
\* [(page-1)*pageSize, page*pageSize), clipped to the result's length; when
\* page*pageSize >= len its length is max(0, len - (page-1)*pageSize); a page past
\* the last one is empty.
C11_PageIsClippedRange ==
    LET n == Len(filteredAndSortedItems)
        first == (currentPage - 1) * itemsPerPage
    IN  /\ Len(paginatedItems) = Cardinality(OnPage(n, currentPage, itemsPerPage))
        /\ \A k \in DOMAIN paginatedItems :
              paginatedItems[k] = filteredAndSortedItems[first + k]
        /\ currentPage * itemsPerPage >= n =>
              Len(paginatedItems) = IF n - first > 0 THEN n - first ELSE 0
        /\ currentPage > TotalPages(filteredAndSortedItems, itemsPerPage) =>
              paginatedItems = <<>>

\* the third page of 21 items holds the last one
C11_Witness ==
    /\ currentPage = 3
    /\ itemsPerPage = 10
    /\ Len(filteredAndSortedItems) = 21
    /\ Len(paginatedItems) = 1

-----------------------------------------------------------------------------
(* C12 *)

\* C12: a change of the page size, a sort request and a change of the category filter
\* set the current page to 1, from any page.
C12_PageResets ==
    [][\/ \E newSize \in PageSizes : OnItemsPerPageChange(newSize)
       \/ \E key \in Keys : RequestSort(key)
       \/ \E category \in CategoryInputs : HandleCategoryChange(category)
       \/ itemsPerPage' # itemsPerPage
       \/ sortConfig' # sortConfig
       \/ selectedCategory' # selectedCategory
       => currentPage' = 1]_vars

\* on page 1 with a page size of 25: the collection has three pages at size 10
C12_Witness ==
    /\ currentPage = 1
    /\ itemsPerPage = 25
    /\ Len(filteredAndSortedItems) = 21

-----------------------------------------------------------------------------
(* C13 *)

\* C13: a sort request with the selected key flips the direction, with another key
\* it selects that key, ascending.
C13_SortToggles ==
    [][\A key \in Keys :
          RequestSort(key) =>
              /\ sortConfig'.key = key
              /\ IF sortConfig.key = key
                 THEN /\ sortConfig.direction = "ascending" =>
                            sortConfig'.direction = "descending"
                      /\ sortConfig.direction = "descending" =>
                            sortConfig'.direction = "ascending"
                 ELSE sortConfig'.direction = "ascending"]_vars

\* a key other than the initial one, selected twice
C13_Witness == sortConfig = [key |-> "name", direction |-> "descending"]

-----------------------------------------------------------------------------
(* C14 *)

\* the sum of the quantities at a set of positions
RECURSIVE QuantityAt(_, _)
QuantityAt(items, positions) ==
    IF positions = {} THEN 0
    ELSE LET k == CHOOSE k \in positions : TRUE
         IN  items[k].quantity + QuantityAt(items, positions \ {k})

\* C14: in every state the statistics are taken over the whole collection: the total
\* quantity is the sum of the quantities, the unique-SKU count is the number of rows,
\* the low-stock count is the number of items with a quantity of at most 10; for the
\* seed collection they are 280, 7 and 2.
C14_StatsOverCollection ==
    LET stats == DashboardStats(inventoryItems)
    IN  /\ stats.totalItemsInStock = QuantityAt(inventoryItems, DOMAIN inventoryItems)
        /\ stats.uniqueProductSKUs = Cardinality(DOMAIN inventoryItems)
        /\ stats.lowStockItemsCount =
              Cardinality({k \in DOMAIN inventoryItems : inventoryItems[k].quantity <= 10})
        /\ inventoryItems = initialItems =>
              /\ stats.totalItemsInStock = 280
              /\ stats.uniqueProductSKUs = 7
              /\ stats.lowStockItemsCount = 2

\* an item with a quantity of exactly 10 was added to the seed collection and counts
C14_Witness ==
    /\ Len(inventoryItems) = 8
    /\ inventoryItems[1].quantity = 10
    /\ SubSeq(inventoryItems, 2, 8) = initialItems
    /\ DashboardStats(inventoryItems).lowStockItemsCount = 3
    /\ DashboardStats(inventoryItems).totalItemsInStock = 290

-----------------------------------------------------------------------------
(* C15 *)

\* C15: the clock never goes back and the lastUpdated of an item never decreases while
\* the item is in the collection: an add sets it to a time not before the call, an
\* update of the item sets it to the current time, and a step that is not an update
\* of the item leaves it as it is.
C15_LastUpdatedNeverDecreases ==
    [][/\ now' >= now
       /\ \A j \in DOMAIN inventoryItems, k \in DOMAIN inventoryItems' :
             inventoryItems[j].id = inventoryItems'[k].id =>
                 inventoryItems'[k].lastUpdated >= inventoryItems[j].lastUpdated
       /\ \A p \in NewItemInputs :
             HandleItemFormSubmit(p) => inventoryItems'[1].lastUpdated >= now
       /\ \A d \in ItemInputs :
             HandleItemFormSubmit(d) =>
                 \A k \in DOMAIN inventoryItems :
                     inventoryItems'[k].lastUpdated =
                         IF inventoryItems[k].id = d.id
                         THEN now
                         ELSE inventoryItems[k].lastUpdated
       /\ ~UpdateStep =>
             \A j \in DOMAIN inventoryItems, k \in DOMAIN inventoryItems' :
                 inventoryItems[j].id = inventoryItems'[k].id =>
                     inventoryItems'[k].lastUpdated = inventoryItems[j].lastUpdated]_vars

\* item '1' of the earlier session's collection was updated after the clock advanced
C15_Witness ==
    /\ loadTimer = "fired"
    /\ Len(inventoryItems) = 3
    /\ inventoryItems[1] = storedItems[1]
    /\ inventoryItems[2].id = "1"
    /\ inventoryItems[2].lastUpdated = Now0 + 1
    /\ storedItems[2].lastUpdated < Now0 + 1

-----------------------------------------------------------------------------
(* C16 *)

\* a view handler ran in this step
ViewStep ==
    \/ \E term \in SearchInputs : SetSearchTerm(term)
    \/ \E category \in CategoryInputs : HandleCategoryChange(category)
    \/ \E key \in Keys : RequestSort(key)
    \/ \E page \in 1..MaxPage : SetCurrentPage(page)
    \/ \E newSize \in PageSizes : OnItemsPerPageChange(newSize)

\* C16: the search, category, sort, page and page-size handlers change neither the
\* collection (items, fields, order) nor the stored value, and the four statistics
\* stay as they are.
C16_ViewLeavesCollection ==
    [][ViewStep =>
          /\ inventoryItems' = inventoryItems
          /\ store' = store
          /\ DashboardStats(inventoryItems') = DashboardStats(inventoryItems)]_vars

\* a search narrows the view to one item; the statistics are those of the seven items
C16_Witness ==
    /\ searchTerm = "mouse"
    /\ Len(filteredAndSortedItems) = 1
    /\ inventoryItems = initialItems
    /\ dashboardStats.totalItemsInStock = 280
    /\ dashboardStats.uniqueProductSKUs = 7
    /\ store = JsonStringify(initialItems)

-----------------------------------------------------------------------------
(* C17 *)

\* C17: whenever the query result is not empty, the current page is at most
\* ceil(length of the result / page size), so that the visible page is not empty.
C17_PageWithinTotal ==
    Len(filteredAndSortedItems) > 0 =>
        /\ currentPage <= TotalPages(filteredAndSortedItems, itemsPerPage)
        /\ paginatedItems # <<>>

-----------------------------------------------------------------------------
(* C18 *)

\* C18: the completion of the load keeps what was added while it was pending: every
\* item in the collection when the timer fires is in the collection, and in the
\* stored value, afterwards.
C18_LoadKeepsAdds ==
    [][LoadStep =>
          \A k \in DOMAIN inventoryItems :
              /\ \E j \in DOMAIN inventoryItems' : inventoryItems'[j] = inventoryItems[k]
              /\ \E j \in DOMAIN store'.body :
                    store'.body[j][1] = inventoryItems[k].id]_vars

-----------------------------------------------------------------------------
(* C19 *)

\* C19: while the load is pending the stored value is not written, so a collection
\* stored by an earlier session is still the stored value when the load has
\* completed; the load completes, once, and isLoading is never true again.
C19_NoWriteWhileLoading ==
    /\ [][/\ isLoading' => store' = store
          /\ (LoadStep /\ store.kind = "array") => store' = store
          /\ LoadStep => isLoading /\ ~isLoading'
          /\ loadTimer = "fired" => loadTimer' = "fired"
          /\ ~isLoading => ~isLoading'
          /\ isLoading' # isLoading => LoadStep]_vars
    /\ <>(loadTimer = "fired" /\ ~isLoading)

\* an item was added while the load is pending and the stored collection is untouched
C19_Witness ==
    /\ isLoading
    /\ loadTimer = "pending"
    /\ Len(inventoryItems) = 1
    /\ store = JsonStringify(storedItems)

-----------------------------------------------------------------------------
(* C20 *)

\* C20: an id leaves the collection only in a step of confirmDeleteItem, which removes
\* exactly the id of the pending request; closing the confirmation leaves the
\* collection as it is; while the confirmation is open an item to delete is set.
C20_LeavesOnlyByConfirmedDelete ==
    [][/\ Ids(inventoryItems') # Ids(inventoryItems) \cup Ids(inventoryItems') =>
             /\ RemoveStep
             /\ Ids(inventoryItems) \ Ids(inventoryItems') = {itemToDelete.id}
       /\ CloseDeleteModal => inventoryItems' = inventoryItems
       /\ isDeleteConfirmModalOpen' => itemToDelete' # Null]_vars

====
